---- MODULE Spec2Model ----
(***************************************************************************)
(* A model of route_yolo_ros2/detect.py: the YoloDetector node.  The state *)
(* is the node's single cached frame (self.cam_image) together with a      *)
(* record of the most recent callback the executor ran.  The Detector      *)
(* (ultralytics YOLO) and the TextReader (easyocr) are the environment:    *)
(* their outputs are drawn from bounded sets.                              *)
(*                                                                         *)
(* Numbers.  Box coordinates are whole pixels, so int(x) is x.  An area    *)
(* percentage 100 * (w * h) / image_size is kept as the exact fraction     *)
(* in lowest terms, <<numerator, denominator>>; 0.0 is <<0, 1>> and 25.0   *)
(* is <<25, 1>>.                                                           *)
(***************************************************************************)
EXTENDS Integers, Sequences, FiniteSets, TLC

VARIABLES cam_image, image_resize, running, nframes, detectorCalls,
          last, ocr_readings, ocr_result, params, vest, px, overwritten, inflight

vars == <<cam_image, image_resize, running, nframes, detectorCalls,
          last, ocr_readings, ocr_result, params, vest, px, overwritten, inflight>>

\* the state used when a single function is exercised on its own
pureVars == <<ocr_readings, ocr_result, vest, px>>

(***************************************************************************)
(* Bounds of the model.                                                    *)
(***************************************************************************)
MaxFrames == 2
MaxCalls == 2
MaxDets == 2
MaxTextLen == 4
MaxSide == 3

(***************************************************************************)
(* Values.                                                                 *)
(***************************************************************************)
\* self.cam_image = None; a frame is [id, h, w] with id >= 1
None == [id |-> 0, h |-> 0, w |-> 0]

Zero == <<0, 1>>

RECURSIVE GCD(_, _)
GCD(a, b) == IF b = 0 THEN a ELSE GCD(b, a % b)

Rat(n, d) == <<n \div GCD(n, d), d \div GCD(n, d)>>

RatGT(a, b) == a[1] * b[2] > b[1] * a[2]

ValidTargets == {"stop", "tire", "person"}

\* request.target values offered by clients; "Stop" and "car" are not in the list
Targets == ValidTargets \cup {"Stop", "car"}

\* raw camera resolutions <<height, width>> and values of the image_resize parameter
RawDims == {<<50, 60>>, <<100, 100>>}

ResizeVals == {0, 200}

(***************************************************************************)
(* Text, as sequences of one-character strings.                            *)
(***************************************************************************)
STOP == <<"S", "T", "O", "P">>

\* str.upper()
UpperChar(c) ==
    CASE c = "s" -> "S"
      [] c = "t" -> "T"
      [] c = "o" -> "O"
      [] c = "p" -> "P"
      [] c = "g" -> "G"
      [] OTHER -> c

Upper(text) == [i \in 1..Len(text) |-> UpperChar(text[i])]

\* str.replace("0", "O")
Replace0(text) == [i \in 1..Len(text) |-> IF text[i] = "0" THEN "O" ELSE text[i]]

\* needle in text (Python's "in" on str)
Contains(text, needle) ==
    \E i \in 1..(Len(text) - Len(needle) + 1) :
        SubSeq(text, i, i + Len(needle) - 1) = needle

\* the TextReader raised instead of returning readings
ReadFail == <<<<"!">>>>

(***************************************************************************)
(* stopsign_ocr_check, lines 147-156.  The value of text.replace on line   *)
(* 151 is not bound to anything: str is immutable, so text is unchanged.   *)
(***************************************************************************)
Normalized(text) == text

RECURSIVE ocr_loop(_, _)
ocr_loop(readings, i) ==
    IF i > Len(readings) THEN FALSE
    ELSE IF Contains(Upper(Normalized(readings[i])), STOP) THEN TRUE
    ELSE ocr_loop(readings, i + 1)

\* crop is <<rows, cols>>; cv2.cvtColor raises on an empty image
EmptyCrop(crop) == crop[1] = 0 \/ crop[2] = 0

stopsign_ocr_check(crop, readings) ==
    IF EmptyCrop(crop) THEN [raised |-> TRUE, cause |-> "crop", found |-> FALSE]
    ELSE IF readings = ReadFail
         THEN [raised |-> TRUE, cause |-> "textreader", found |-> FALSE]
    ELSE [raised |-> FALSE, cause |-> "", found |-> ocr_loop(readings, 1)]

(***************************************************************************)
(* orange_vest_mask, lines 158-166.  self.get_parameter(name) returns the  *)
(* rclpy Parameter object; lines 160-161 put these objects, not their      *)
(* .value, in the bound tuples handed to cv2.inRange, which accepts only   *)
(* numeric tuples or arrays.                                               *)
(***************************************************************************)
ParamDefaults ==
    [n \in {"orange.hue_l", "orange.hue_h", "orange.sat_l", "orange.sat_h",
            "orange.val_l", "orange.val_h"} |->
        CASE n = "orange.hue_l" -> 20
          [] n = "orange.hue_h" -> 50
          [] n = "orange.sat_l" -> 200
          [] n = "orange.sat_h" -> 255
          [] n = "orange.val_l" -> 100
          [] n = "orange.val_h" -> 200]

\* self.get_parameter(n): the Parameter object holding the node's current value
get_parameter(n) == [type |-> "Parameter", name |-> n, value |-> params[n]]

tcol_lower ==
    <<get_parameter("orange.hue_l"), get_parameter("orange.sat_l"),
      get_parameter("orange.val_l")>>

tcol_upper ==
    <<get_parameter("orange.hue_h"), get_parameter("orange.sat_h"),
      get_parameter("orange.val_h")>>

IsNumericTuple(t) == \A i \in 1..Len(t) : t[i].type \in {"int", "float"}

inRangeRaisesByValue(lowerb, upperb) ==
    \E i \in 1..Len(lowerb) : lowerb[i].value > upperb[i].value

\* cv2.inRange(hsv_image, lowerb, upperb)
inRangeRaises(lowerb, upperb) == ~(IsNumericTuple(lowerb) /\ IsNumericTuple(upperb))

\* the mask value cv2.inRange gives a pixel: 255 inside [lowerb, upperb], else 0
inRangeMask(hsv, lowerb, upperb) ==
    IF \A i \in 1..3 : lowerb[i].value <= hsv[i] /\ hsv[i] <= upperb[i].value
    THEN 255 ELSE 0

\* vest.hsv is the colour of the region, after cv2.cvtColor(..., COLOR_BGR2HSV)
orange_vest_mask(crop) ==
    IF EmptyCrop(crop)
    THEN [raised |-> TRUE, cause |-> "crop", published |-> 0, mask |-> 0]
    ELSE IF inRangeRaises(tcol_lower, tcol_upper)
         THEN [raised |-> TRUE, cause |-> "inrange", published |-> 0, mask |-> 0]
    ELSE [raised |-> FALSE, cause |-> "", published |-> 1,
          mask |-> inRangeMask(vest.hsv, tcol_lower, tcol_upper)]

(***************************************************************************)
(* Raw detections.  A detection is [xyxy, text]: the box, and what the     *)
(* TextReader answers for its region (consulted in 'stop' mode only).      *)
(***************************************************************************)
\* <<x_min, y_min, x_max, y_max>>: 50 x 50, 100 wide x 50 high, 50 wide x 100 high
Boxes == {<<0, 0, 50, 50>>, <<50, 0, 150, 50>>, <<0, 50, 50, 150>>}

Texts == {<<STOP>>, <<<<"G", "O">>>>, ReadFail}

NoText == <<>>

DetsOf(mode) ==
    LET D == IF mode = "stop"
             THEN [xyxy : Boxes, text : Texts]
             ELSE [xyxy : Boxes, text : {NoText}]
    IN  UNION {[1..n -> D] : n \in 0..MaxDets}

\* box.xywh[0][2], box.xywh[0][3]
BoxW(b) == b[3] - b[1]

BoxH(b) == b[4] - b[2]

\* the length of a[lo:hi] for an axis of n elements (numpy basic slicing)
SliceIndex(i, n) == IF i < 0 THEN (IF i + n < 0 THEN 0 ELSE i + n)
                    ELSE (IF i > n THEN n ELSE i)

SliceLen(lo, hi, n) ==
    IF SliceIndex(hi, n) > SliceIndex(lo, n)
    THEN SliceIndex(hi, n) - SliceIndex(lo, n) ELSE 0

\* image[y1:y2, x1:x2], lines 125 and 131
Crop(image, b) == <<SliceLen(b[2], b[4], image.h), SliceLen(b[1], b[3], image.w)>>

InBounds(image, b) ==
    /\ 0 <= b[1] /\ b[1] < b[3] /\ b[3] <= image.w
    /\ 0 <= b[2] /\ b[2] < b[4] /\ b[4] <= image.h

(***************************************************************************)
(* analyze_results, lines 114-145.                                         *)
(***************************************************************************)
\* line 135
Area(b, image_size) == Rat(100 * (BoxW(b) * BoxH(b)), image_size)

\* lines 136-137
UpdateBiggestLast(biggest, area) == area

UpdateBiggest(biggest, area) == IF RatGT(area, biggest) THEN area ELSE biggest

\* line 126: a detection whose region does not read STOP is skipped
SkipsNever(found) == FALSE

Skips(found) == ~found

AnalyzeStart ==
    [raised |-> FALSE, cause |-> "", detected |-> 0, biggest |-> Zero,
     vest |-> 0, verdicts |-> <<>>]

Raise(acc, cause) ==
    [acc EXCEPT !.raised = TRUE, !.cause = cause,
                !.verdicts = Append(acc.verdicts, "raised")]

Count(acc, det, image) ==
    [acc EXCEPT !.detected = acc.detected + 1,
                !.biggest = UpdateBiggest(acc.biggest, Area(det.xyxy, image.h * image.w)),
                !.verdicts = Append(acc.verdicts, "counted")]

\* one pass of the body of the loop of line 122
LoopBody(acc, det, image, mode) ==
    IF mode = "stop"
    THEN LET r == stopsign_ocr_check(Crop(image, det.xyxy), det.text)
         IN  IF r.raised THEN Raise(acc, r.cause)
             ELSE IF Skips(r.found)
                  THEN [acc EXCEPT !.verdicts = Append(acc.verdicts, "fake")]
             ELSE Count(acc, det, image)
    ELSE IF mode = "person"
    THEN LET r == orange_vest_mask(Crop(image, det.xyxy))
         IN  IF r.raised THEN Raise(acc, r.cause)
             ELSE Count([acc EXCEPT !.vest = acc.vest + r.published], det, image)
    ELSE Count(acc, det, image)

RECURSIVE analyze_loop(_, _, _, _, _)
analyze_loop(acc, dets, i, image, mode) ==
    IF i > Len(dets) \/ acc.raised THEN acc
    ELSE analyze_loop(LoopBody(acc, dets[i], image, mode), dets, i + 1, image, mode)

AnnotatedOnlyIfDetected(acc) == IF acc.raised \/ acc.detected = 0 THEN 0 ELSE 1

\* line 144 publishes the annotated frame once the loop has ended
AnnotatedPublications(acc) == IF acc.raised THEN 0 ELSE 1

analyze_results(dets, image, mode) ==
    LET acc == analyze_loop(AnalyzeStart, dets, 1, image, mode)
    IN  [raised |-> acc.raised, cause |-> acc.cause, count |-> acc.detected,
         size |-> acc.biggest, vest |-> acc.vest, verdicts |-> acc.verdicts,
         annotated |-> AnnotatedPublications(acc)]

(***************************************************************************)
(* detect, lines 89-112.  det is what the Detector does with the frame:    *)
(* [fail, dets].  Line 108 clears the cache after analyze_results returns. *)
(***************************************************************************)
CacheKept(img) == img

CacheAfterDetect(img) == None

\* lines 90-94
model_path ==
    [m \in {"stop", "tire", "person"} |->
        IF m = "tire" THEN "model_tire_path" ELSE "model_coco_path"]

\* lines 99-103
target_ids == [m \in {"person", "stop", "tire"} |-> IF m = "stop" THEN 11 ELSE 0]

DetectRaised(cause, img) ==
    [raised |-> TRUE, cause |-> cause, count |-> 0, size |-> Zero,
     vest |-> 0, verdicts |-> <<>>, annotated |-> 0, cam |-> img]

detect(img, mode, det) ==
    IF mode \notin DOMAIN model_path THEN DetectRaised("keyerror", img)
    ELSE IF img = None THEN DetectRaised("attribute", img)
    ELSE IF mode \notin DOMAIN target_ids THEN DetectRaised("keyerror", img)
    ELSE IF det.fail THEN DetectRaised("detector", img)
    ELSE LET a == analyze_results(det.dets, img, mode)
         IN  [raised |-> a.raised, cause |-> a.cause, count |-> a.count,
              size |-> a.size, vest |-> a.vest, verdicts |-> a.verdicts,
              annotated |-> a.annotated,
              cam |-> IF a.raised THEN img ELSE CacheAfterDetect(img)]

(***************************************************************************)
(* handle_detection_request, lines 71-87.                                  *)
(***************************************************************************)
HandlerBranchModeFirst(img, target) ==
    IF target \notin ValidTargets THEN "unknown"
    ELSE IF img = None THEN "no_image"
    ELSE "detect"

HandlerBranchAnyTarget(img, target) ==
    IF img = None THEN "no_image" ELSE "detect"

HandlerBranch(img, target) ==
    IF img = None THEN "no_image"
    ELSE IF target \notin ValidTargets THEN "unknown"
    ELSE "detect"

NoImageResponseZero == [count |-> 0, size |-> Zero]

\* lines 74-75
NoImageResponse == [count |-> -1, size |-> Zero]

\* lines 80-81
UnknownResponse == [count |-> 0, size |-> Zero]

CacheDroppedOnUnknown(img) == None

\* lines 78-82 assign nothing to self.cam_image
CacheAfterUnknown(img) == img

\* what the callback before this one was, for the record in last
KindOf(l) ==
    IF l.kind = "request" THEN
        (IF l.branch = "detect" THEN "req_done" ELSE
         IF l.branch = "unknown" THEN "req_unknown" ELSE "req_no_image")
    ELSE l.kind

NoDet == [fail |-> FALSE, dets |-> <<>>]

\* no request is between its read of the cache and its clearing of it
NoFlight == [active |-> FALSE, target |-> "", im |-> None, arrived |-> None]

NoResult == [raised |-> FALSE, count |-> 0, size |-> Zero, vest |-> 0]

\* no 'person' pass is under comparison; the region's colour is an orange
VestIdle ==
    [phase |-> "idle", img |-> None, dets |-> <<>>, hsv |-> <<30, 220, 150>>,
     params1 |-> ParamDefaults, hsv1 |-> <<30, 220, 150>>,
     first |-> NoResult, second |-> NoResult]

\* no image is under preprocessing; an image is a sequence of rows of pixels
PxIdle ==
    [phase |-> "idle", img |-> <<>>, flag |-> FALSE, out |-> <<>>, twice |-> <<>>,
     src |-> <<>>, padded |-> FALSE]

LastInit ==
    [kind |-> "init", target |-> "", before |-> None, branch |-> "",
     outcome |-> "none", cause |-> "", count |-> 0, size |-> Zero,
     detFrame |-> None, det |-> NoDet, verdicts |-> <<>>, annotated |-> 0,
     vest |-> 0, prevKind |-> "init", prevBefore |-> None]

HandleDetectionRequest ==
    /\ running
    /\ \E target \in Targets :
       LET branch == HandlerBranch(cam_image, target)
       IN  \E det \in IF branch = "detect"
                      THEN {[fail |-> TRUE, dets |-> <<>>]}
                           \cup {[fail |-> FALSE, dets |-> d] : d \in DetsOf(target)}
                      ELSE {NoDet} :
           LET r == IF branch = "detect" THEN detect(cam_image, target, det)
                    ELSE [raised |-> FALSE, cause |-> "",
                          count |-> IF branch = "no_image" THEN NoImageResponse.count
                                    ELSE UnknownResponse.count,
                          size |-> IF branch = "no_image" THEN NoImageResponse.size
                                   ELSE UnknownResponse.size,
                          vest |-> 0, verdicts |-> <<>>, annotated |-> 0,
                          cam |-> IF branch = "unknown" THEN CacheAfterUnknown(cam_image)
                                  ELSE cam_image]
           IN  /\ branch = "detect" => detectorCalls[cam_image.id] < MaxCalls
               /\ cam_image' = r.cam
               /\ running' = ~r.raised
               /\ detectorCalls' =
                      IF branch = "detect"
                      THEN [detectorCalls EXCEPT ![cam_image.id] = @ + 1]
                      ELSE detectorCalls
               /\ last' = [kind |-> "request", target |-> target, before |-> cam_image,
                           branch |-> branch,
                           outcome |-> IF r.raised THEN "raised" ELSE "response",
                           cause |-> r.cause, count |-> r.count, size |-> r.size,
                           detFrame |-> IF branch = "detect" THEN cam_image ELSE None,
                           det |-> det, verdicts |-> r.verdicts,
                           annotated |-> r.annotated, vest |-> r.vest,
                           prevKind |-> KindOf(last), prevBefore |-> last.before]
    /\ UNCHANGED <<image_resize, nframes, params, overwritten, inflight, pureVars>>

(***************************************************************************)
(* image_callback, lines 54-69, on the size of the frame.  msg is [ok, h,  *)
(* w]: whether cv_bridge converts the message, and the image's size.       *)
(***************************************************************************)
\* letterbox_resize returns an image of the requested size, lines 172 and 177
letterbox_size(h, w, size) == size

Preprocessed(h, w, resize_val) ==
    IF resize_val > 0 THEN letterbox_size(h, w, <<resize_val, resize_val>>)
    ELSE <<h, w>>

StoreIfEmpty(old, new) == IF old = None THEN new ELSE old

\* line 69
Store(old, new) == new

CacheDroppedOnBadFrame(img) == None

\* lines 57-59 return before anything is assigned
CacheAfterBadFrame(img) == img

\* the cache after image_callback, and the frames that were replaced uncleared
CacheAfterMessage(old, ok, new) ==
    IF ok THEN Store(old, new) ELSE CacheAfterBadFrame(old)

Replaced(old, after) == IF old # None /\ after # old THEN {old.id} ELSE {}

ImageCallback ==
    /\ running
    /\ nframes < MaxFrames
    /\ \E ok \in BOOLEAN, d \in RawDims :
       LET p == Preprocessed(d[1], d[2], image_resize)
           after == CacheAfterMessage(cam_image, ok,
                                      [id |-> nframes + 1, h |-> p[1], w |-> p[2]])
       IN  /\ cam_image' = after
           /\ overwritten' = overwritten \cup Replaced(cam_image, after)
           /\ last' = [LastInit EXCEPT !.kind = IF ok THEN "frame" ELSE "frame_bad",
                                       !.before = cam_image,
                                       !.prevKind = KindOf(last),
                                       !.prevBefore = last.before]
    /\ nframes' = nframes + 1
    /\ UNCHANGED <<image_resize, running, detectorCalls, params, inflight, pureVars>>

(***************************************************************************)
(* The node under rclpy.spin (main, lines 180-185): callbacks run one at a *)
(* time; an exception raised by a callback leaves spin.                    *)
(***************************************************************************)
\* the node right after __init__, lines 18-52, with no function under exercise
NodeInit ==
    /\ cam_image = None
    /\ running = TRUE
    /\ nframes = 0
    /\ detectorCalls = [i \in 1..(MaxFrames + 1) |-> 0]
    /\ last = LastInit
    /\ params = ParamDefaults
    /\ overwritten = {}
    /\ inflight = NoFlight

Init ==
    /\ NodeInit
    /\ image_resize \in ResizeVals
    /\ ocr_readings = <<>>
    /\ ocr_result = "idle"
    /\ vest = VestIdle
    /\ px = PxIdle

Next == ImageCallback \/ HandleDetectionRequest

Spec == Init /\ [][Next]_vars

(***************************************************************************)
(* The same node under a dispatcher that runs callbacks in parallel:       *)
(* image_callback may run after detect has copied the cached frame (line   *)
(* 96) and before it clears the cache (line 108).  inflight holds the      *)
(* request that is between these two lines: its target, its copy im, and   *)
(* the frame that arrived meanwhile.                                       *)
(***************************************************************************)
\* lines 71-96: the handler enters detect, which copies the cached frame
DetectBegin ==
    /\ running
    /\ ~inflight.active
    /\ \E target \in Targets :
           /\ HandlerBranch(cam_image, target) = "detect"
           /\ detectorCalls[cam_image.id] < MaxCalls
           /\ inflight' = [active |-> TRUE, target |-> target, im |-> cam_image,
                           arrived |-> None]
           /\ detectorCalls' = [detectorCalls EXCEPT ![cam_image.id] = @ + 1]
    /\ UNCHANGED <<cam_image, image_resize, running, nframes, last, params,
                   overwritten, pureVars>>

\* image_callback, lines 54-69, while the request is in detect
FrameArrivesDuringPass ==
    /\ running
    /\ inflight.active
    /\ nframes < MaxFrames
    /\ \E ok \in BOOLEAN, d \in RawDims :
       LET p == Preprocessed(d[1], d[2], image_resize)
           new == [id |-> nframes + 1, h |-> p[1], w |-> p[2]]
           after == CacheAfterMessage(cam_image, ok, new)
       IN  /\ cam_image' = after
           /\ overwritten' = overwritten \cup Replaced(cam_image, after)
           /\ inflight' = [inflight EXCEPT !.arrived = IF ok THEN new ELSE @]
    /\ nframes' = nframes + 1
    /\ UNCHANGED <<image_resize, running, detectorCalls, last, params, pureVars>>

\* lines 97-112 and 85-87: the Detector, analyze_results, and the clearing
DetectEnd ==
    /\ running
    /\ inflight.active
    /\ \E det \in {[fail |-> TRUE, dets |-> <<>>]}
                   \cup {[fail |-> FALSE, dets |-> d] : d \in DetsOf(inflight.target)} :
       LET r == detect(inflight.im, inflight.target, det)
       IN  /\ cam_image' = IF r.raised THEN cam_image ELSE r.cam
           /\ running' = ~r.raised
           /\ last' = [kind |-> "request_conc", target |-> inflight.target,
                       before |-> inflight.im, branch |-> "detect",
                       outcome |-> IF r.raised THEN "raised" ELSE "response",
                       cause |-> r.cause, count |-> r.count, size |-> r.size,
                       detFrame |-> inflight.im, det |-> det, verdicts |-> r.verdicts,
                       annotated |-> r.annotated, vest |-> r.vest,
                       prevKind |-> KindOf(last), prevBefore |-> last.before]
    /\ inflight' = [inflight EXCEPT !.active = FALSE]
    /\ UNCHANGED <<image_resize, nframes, detectorCalls, params, overwritten, pureVars>>

SerialImageCallback == ~inflight.active /\ ImageCallback

SerialRequest == ~inflight.active /\ HandleDetectionRequest

NextConc ==
    \/ SerialImageCallback
    \/ SerialRequest
    \/ DetectBegin
    \/ FrameArrivesDuringPass
    \/ DetectEnd

SpecConc == Init /\ [][NextConc]_vars

(***************************************************************************)
(* stopsign_ocr_check on its own: the readings are drawn from the texts of *)
(* at most MaxTextLen characters over OcrAlphabet, alone or next to a text *)
(* of at most one character, and the two examples "5T0P" and "GO".         *)
(***************************************************************************)
OcrAlphabet == {"S", "T", "O", "P", "0", "o"}

TextsUpTo(n) == UNION {[1..k -> OcrAlphabet] : k \in 0..n}

Text5T0P == <<"5", "T", "0", "P">>

TextGO == <<"G", "O">>

OcrInputs(n) ==
    LET long == TextsUpTo(n) \cup {Text5T0P, TextGO}
        short == TextsUpTo(1)
    IN  {<<>>} \cup {<<t>> : t \in long}
               \cup {<<a, t>> : a \in short, t \in long}
               \cup {<<t, a>> : a \in short, t \in long}

InitOcr ==
    /\ NodeInit
    /\ image_resize = 0
    /\ ocr_readings \in OcrInputs(MaxTextLen)
    /\ ocr_result = "pending"
    /\ vest = VestIdle
    /\ px = PxIdle

\* one call of stopsign_ocr_check on a region that is not empty
OcrCheck ==
    /\ ocr_result = "pending"
    /\ ocr_result' = IF stopsign_ocr_check(<<1, 1>>, ocr_readings).found
                     THEN "true" ELSE "false"
    /\ UNCHANGED <<cam_image, image_resize, running, nframes, detectorCalls, last,
                   ocr_readings, params, vest, px, overwritten, inflight>>

SpecOcr == InitOcr /\ [][OcrCheck]_vars

(***************************************************************************)
(* Two 'person' passes of analyze_results over the same detections on the  *)
(* same frame size; between them the six orange.* parameters and the       *)
(* colour of the regions may change.                                       *)
(***************************************************************************)
ColorRanges == {ParamDefaults, [ParamDefaults EXCEPT !["orange.hue_l"] = 60]}

HsvValues == {<<30, 220, 150>>, <<0, 0, 0>>}

VestFrames == {[id |-> 1, h |-> 100, w |-> 100], [id |-> 1, h |-> 200, w |-> 200]}

PassResult(a) == [raised |-> a.raised, count |-> a.count, size |-> a.size, vest |-> a.vest]

InitVest ==
    /\ NodeInit
    /\ image_resize = 0
    /\ ocr_readings = <<>>
    /\ ocr_result = "idle"
    /\ px = PxIdle
    /\ \E f \in VestFrames, d \in DetsOf("person"), c \in HsvValues :
           vest = [VestIdle EXCEPT !.phase = "start", !.img = f, !.dets = d,
                                   !.hsv = c, !.hsv1 = c]

VestFirstPass ==
    /\ vest.phase = "start"
    /\ vest' = [vest EXCEPT !.phase = "first",
                            !.first = PassResult(analyze_results(vest.dets, vest.img, "person"))]
    /\ UNCHANGED <<cam_image, image_resize, running, nframes, detectorCalls, last,
                   ocr_readings, ocr_result, params, px, overwritten, inflight>>

\* the parameters are set from outside and the next frame shows other colours
VestReconfigure ==
    /\ vest.phase = "first"
    /\ \E r \in ColorRanges, c \in HsvValues :
           /\ params' = r
           /\ vest' = [vest EXCEPT !.phase = "changed", !.hsv = c]
    /\ UNCHANGED <<cam_image, image_resize, running, nframes, detectorCalls, last,
                   ocr_readings, ocr_result, px, overwritten, inflight>>

VestSecondPass ==
    /\ vest.phase = "changed"
    /\ vest' = [vest EXCEPT !.phase = "done",
                            !.second = PassResult(analyze_results(vest.dets, vest.img, "person"))]
    /\ UNCHANGED <<cam_image, image_resize, running, nframes, detectorCalls, last,
                   ocr_readings, ocr_result, params, px, overwritten, inflight>>

NextVest == VestFirstPass \/ VestReconfigure \/ VestSecondPass

SpecVest == InitVest /\ [][NextVest]_vars

(***************************************************************************)
(* The preprocessing of image_callback on pixels: letterbox_resize up to   *)
(* its call of cv2.resize, and the two flips.  An image is a sequence of   *)
(* rows, a row a sequence of pixel values; row 1 is the top row.           *)
(***************************************************************************)
PixelValues == {0, 1}

Images(n) == UNION {[1..h -> [1..w -> PixelValues]] : h \in 1..n, w \in 1..n}

Rows(m) == Len(m)

Cols(m) == Len(m[1])

\* cv2.flip(img, flipCode): 0 flips around the x-axis, 1 around the y-axis
flip(m, flipCode) ==
    IF flipCode = 0 THEN [i \in 1..Rows(m) |-> m[Rows(m) + 1 - i]]
    ELSE [i \in 1..Rows(m) |-> [j \in 1..Cols(m) |-> m[i][Cols(m) + 1 - j]]]

FlippedMirror(img, flag) == IF flag THEN flip(img, 1) ELSE img

\* lines 65-67
Flipped(img, flag) == IF flag THEN flip(flip(img, 0), 1) ELSE img

OffsetZero(dif, n) == 0

\* line 175
Offset(dif, n) == (dif - n) \div 2

\* lines 169-177: the image handed to cv2.resize, and whether it is a padded canvas
letterbox_source(img) ==
    LET h == Rows(img)
        w == Cols(img)
        dif == IF h > w THEN h ELSE w
        y == Offset(dif, h)
        x == Offset(dif, w)
    IN  IF h = w THEN [src |-> img, padded |-> FALSE]
        ELSE [src |-> [i \in 1..dif |-> [j \in 1..dif |->
                          IF y < i /\ i <= y + h /\ x < j /\ j <= x + w
                          THEN img[i - y][j - x] ELSE 0]],
              padded |-> TRUE]

InitImage ==
    /\ NodeInit
    /\ image_resize = 0
    /\ ocr_readings = <<>>
    /\ ocr_result = "idle"
    /\ vest = VestIdle
    /\ \E m \in Images(MaxSide) : px = [PxIdle EXCEPT !.phase = "start", !.img = m]

FlipCall ==
    /\ px.phase = "start"
    /\ \E flag \in BOOLEAN :
           px' = [px EXCEPT !.phase = "flipped", !.flag = flag,
                            !.out = Flipped(px.img, flag),
                            !.twice = Flipped(Flipped(px.img, flag), flag)]
    /\ UNCHANGED <<cam_image, image_resize, running, nframes, detectorCalls, last,
                   ocr_readings, ocr_result, params, vest, overwritten, inflight>>

LetterboxCall ==
    /\ px.phase = "start"
    /\ px' = [px EXCEPT !.phase = "letterboxed",
                        !.src = letterbox_source(px.img).src,
                        !.padded = letterbox_source(px.img).padded]
    /\ UNCHANGED <<cam_image, image_resize, running, nframes, detectorCalls, last,
                   ocr_readings, ocr_result, params, vest, overwritten, inflight>>

NextImage == FlipCall \/ LetterboxCall

SpecImage == InitImage /\ [][NextImage]_vars

(***************************************************************************)
(* Properties.                                                             *)
(***************************************************************************)
IsRequest == last.kind = "request"

UnknownReq == IsRequest /\ last.target \notin ValidTargets

ValidReq == IsRequest /\ last.target \in ValidTargets

\* the request went through detect and analyze_results and was answered
Completed == IsRequest /\ last.branch = "detect" /\ last.outcome = "response"

Answered(c, s) == last.outcome = "response" /\ last.count = c /\ last.size = s

NoDetectorNoPublication ==
    last.detFrame = None /\ last.annotated = 0 /\ last.vest = 0

\* C1: a completed detection pass leaves the cache empty, a valid request
\* right after a completed pass is answered (-1, 0.0), and no frame is
\* handed to the Detector more than once.
ConsumeOnce ==
    /\ Completed => cam_image = None
    /\ (ValidReq /\ last.prevKind = "req_done") => Answered(-1, Zero)
    /\ \A id \in DOMAIN detectorCalls : detectorCalls[id] <= 1

ConsumeOnceWitness ==
    /\ ValidReq /\ last.prevKind = "req_done"
    /\ last.prevBefore # None
    /\ detectorCalls[last.prevBefore.id] = 1
    /\ Answered(-1, Zero)

\* C2 as stated: every request with an unknown target is answered (0, 0.0),
\* whatever the cache holds.
UnknownModeAlwaysZero == UnknownReq => Answered(0, Zero)

\* C2 as amended: a request with an unknown target is answered (0, 0.0) when
\* a frame is cached and (-1, 0.0) when the cache is empty, without a
\* Detector call.
UnknownModeAfterCacheTest ==
    UnknownReq =>
        /\ last.detFrame = None
        /\ IF last.before = None THEN Answered(-1, Zero) ELSE Answered(0, Zero)

UnknownModeOnEmptyCache == UnknownReq /\ last.before = None /\ Answered(-1, Zero)

\* C3: a request with an unknown target leaves the cached frame as it was,
\* calls no Detector and publishes nothing; the valid request that follows
\* it hands that same frame to the Detector and is not answered -1.
UnknownModeKeepsFrame ==
    /\ UnknownReq => cam_image = last.before /\ NoDetectorNoPublication
    /\ (ValidReq /\ last.prevKind = "req_unknown" /\ last.prevBefore # None) =>
           /\ last.detFrame = last.prevBefore
           /\ last.outcome = "response" => last.count >= 0

UnknownThenValidWitness ==
    /\ ValidReq /\ last.prevKind = "req_unknown" /\ last.prevBefore # None
    /\ last.detFrame = last.prevBefore
    /\ last.outcome = "response" /\ last.count >= 1

\* C4: a valid request on an empty cache is answered (-1, 0.0), calls no
\* Detector, publishes nothing and leaves the cache empty; -1 is answered
\* only when the cache was empty.
NoFrameSentinel ==
    /\ (ValidReq /\ last.before = None) =>
           Answered(-1, Zero) /\ NoDetectorNoPublication /\ cam_image = None
    /\ (IsRequest /\ last.outcome = "response" /\ last.count = -1) =>
           last.before = None

NoFrameWitness == ValidReq /\ last.before = None /\ Answered(-1, Zero)

\* C5: when the Detector or the TextReader fails during a request, the
\* cache is empty at the moment the failure surfaces.
FailureLeavesCacheEmpty ==
    (IsRequest /\ last.outcome = "raised" /\ last.cause \in {"detector", "textreader"})
        => cam_image = None

\* C6: the validator answers true exactly when some recognized string, with
\* every "0" replaced by "O" and upper-cased, contains "STOP".
ValidatorNormalizes ==
    ocr_result \in {"true", "false"} =>
        ((ocr_result = "true") <=>
            \E i \in 1..Len(ocr_readings) :
                Contains(Upper(Replace0(ocr_readings[i])), STOP))

\* the gating of one raw detection, per mode
Gate(mode, img, d) ==
    mode \in {"tire", "person"}
    \/ (mode = "stop" /\ stopsign_ocr_check(Crop(img, d.xyxy), d.text).found)

\* C7: a detection whose box is not inside the frame is skipped, is not
\* counted and does not fail the request; the others are still counted.
OutOfBoundsSkipped ==
    LET dets == last.det.dets
        img == last.before
    IN  (/\ IsRequest /\ last.branch = "detect" /\ ~last.det.fail
         /\ \A i \in 1..Len(dets) : dets[i].text # ReadFail
         /\ \E i \in 1..Len(dets) : ~InBounds(img, dets[i].xyxy))
        => /\ last.outcome = "response"
           /\ last.count = Cardinality({i \in 1..Len(dets) :
                               /\ InBounds(img, dets[i].xyxy)
                               /\ Gate(last.target, img, dets[i])})

\* C8: the count of a completed pass is the number of raw detections that
\* pass the gating of the mode; the rejected ones change neither the count
\* nor the maximum, so dropping them from the Detector's output gives the
\* same answer.
CountIsGated ==
    Completed =>
        LET dets == last.det.dets
            img == last.before
            Accepted(d) == Gate(last.target, img, d)
            kept == analyze_results(SelectSeq(dets, Accepted), img, last.target)
        IN  /\ last.count = Cardinality({i \in 1..Len(dets) : Accepted(dets[i])})
            /\ \A i \in 1..Len(dets) :
                   last.verdicts[i] = (IF Accepted(dets[i]) THEN "counted" ELSE "fake")
            /\ kept.count = last.count /\ kept.size = last.size

CountIsGatedWitness ==
    /\ Completed /\ last.target = "stop" /\ last.count = 1
    /\ \E i, j \in 1..Len(last.verdicts) :
           last.verdicts[i] = "fake" /\ last.verdicts[j] = "counted"

\* 100 * (box_width * box_height) / (frame_height * frame_width)
AreaPct(b, img) == Rat(100 * ((b[3] - b[1]) * (b[4] - b[2])), img.h * img.w)

\* C9: the size of a completed pass is the largest area percentage among
\* the counted detections and 0.0 when none is counted; a 50 x 50 box in a
\* 100 x 100 frame gives 25.0.
SizeIsMaxArea ==
    Completed =>
        LET dets == last.det.dets
            img == last.before
            counted == {i \in 1..Len(dets) : last.verdicts[i] = "counted"}
        IN  /\ IF counted = {} THEN last.size = Zero
               ELSE /\ \E i \in counted : last.size = AreaPct(dets[i].xyxy, img)
                    /\ \A i \in counted : ~RatGT(AreaPct(dets[i].xyxy, img), last.size)
            /\ (/\ img.h = 100 /\ img.w = 100 /\ counted = {1} /\ Len(dets) = 1
                /\ BoxW(dets[1].xyxy) = 50 /\ BoxH(dets[1].xyxy) = 50)
               => last.size = <<25, 1>>

\* two counted detections of the same area, which is the size answered
SizeTieWitness ==
    /\ Completed /\ Len(last.det.dets) = 2 /\ last.count = 2
    /\ last.det.dets[1].xyxy # last.det.dets[2].xyxy
    /\ AreaPct(last.det.dets[1].xyxy, last.before)
           = AreaPct(last.det.dets[2].xyxy, last.before)
    /\ last.size = AreaPct(last.det.dets[1].xyxy, last.before)

\* C10: a 'person' pass over n in-bounds detections completes, answers
\* count = n and publishes n vest masks; one 50 x 50 box in a 200 x 200
\* frame gives (1, 6.25).
PersonPassCompletes ==
    LET dets == last.det.dets
        img == last.before
    IN  (/\ IsRequest /\ last.branch = "detect" /\ last.target = "person"
         /\ ~last.det.fail
         /\ \A i \in 1..Len(dets) : InBounds(img, dets[i].xyxy))
        => /\ last.outcome = "response"
           /\ last.count = Len(dets)
           /\ last.vest = Len(dets)
           /\ (img.h = 200 /\ img.w = 200 /\ Len(dets) = 1
               /\ BoxW(dets[1].xyxy) = 50 /\ BoxH(dets[1].xyxy) = 50)
              => last.size = <<25, 4>>

AnnotatedOncePerPass ==
    /\ Completed => last.annotated = 1
    /\ (IsRequest /\ last.branch \in {"no_image", "unknown"}) => last.annotated = 0

AllRejectedWitness ==
    /\ Completed /\ last.target = "stop"
    /\ Len(last.det.dets) >= 1 /\ last.count = 0
    /\ last.annotated = 1

\* C13: every response has count = -1 or count >= 0 and a size between 0.0
\* and 100.0.
ResponseInRange ==
    (IsRequest /\ last.outcome = "response") =>
        /\ last.count >= -1
        /\ last.size[1] >= 0
        /\ last.size[1] <= 100 * last.size[2]

\* C16: a frame that was replaced in the cache never reaches the Detector;
\* after an arrival the cache holds the frame that arrived last, and the
\* valid request that follows runs the Detector on it and is not answered -1.
LastWriteWins ==
    /\ \A id \in overwritten : detectorCalls[id] = 0
    /\ cam_image # None => cam_image.id \notin overwritten
    /\ last.kind = "frame" => cam_image.id = nframes
    /\ (ValidReq /\ last.prevKind = "frame") =>
           /\ last.detFrame = last.before
           /\ last.before.id = nframes
           /\ last.outcome = "response" => last.count >= 0

LastWriteWinsWitness ==
    /\ ValidReq /\ last.prevKind = "frame"
    /\ (last.detFrame.id - 1) \in overwritten
    /\ last.outcome = "response" /\ last.count >= 1

\* C18: detect is entered only with a cached frame and a target of the
\* three known ones, so the copy of the frame and the two dictionary
\* lookups never fail.
DetectPreconditions ==
    (IsRequest /\ last.branch = "detect") =>
        /\ last.before # None
        /\ last.target \in {"stop", "tire", "person"}
        /\ last.target \in DOMAIN model_path /\ last.target \in DOMAIN target_ids
        /\ last.cause \notin {"keyerror", "attribute"}

DetectEnteredWitness ==
    /\ Completed /\ last.prevKind = "req_unknown"
    /\ last.before # None /\ last.target = "tire"

\* C19: a frame message that cannot be converted leaves the cache as it
\* was: a cached frame is still served to the next valid request, and an
\* empty cache stays empty.
BadFrameKeepsCache ==
    /\ last.kind = "frame_bad" => cam_image = last.before
    /\ (ValidReq /\ last.prevKind = "frame_bad") =>
           /\ last.before = last.prevBefore
           /\ IF last.prevBefore = None THEN Answered(-1, Zero)
              ELSE last.detFrame = last.prevBefore

BadFrameWitness ==
    /\ ValidReq /\ last.prevKind = "frame_bad"
    /\ last.prevBefore # None /\ last.detFrame = last.prevBefore
    /\ last.outcome = "response"

FlipIsRotation ==
    (px.phase = "flipped" /\ px.flag) =>
        /\ Rows(px.out) = Rows(px.img)
        /\ \A i \in 1..Rows(px.img) :
               /\ Len(px.out[i]) = Cols(px.img)
               /\ \A j \in 1..Cols(px.img) :
                      px.out[i][j] = px.img[Rows(px.img) + 1 - i][Cols(px.img) + 1 - j]
        /\ px.twice = px.img

\* an image that its rotation, its mirror image and its upside-down image all differ from
FlipWitness ==
    /\ px.phase = "flipped" /\ px.flag
    /\ px.out # px.img
    /\ px.out # flip(px.img, 0)
    /\ px.out # flip(px.img, 1)
    /\ px.twice = px.img

\* C15: for height # width the image handed to the resize is a square of
\* side max(height, width) that holds the input at rows floor((side -
\* height) / 2) onwards and columns floor((side - width) / 2) onwards and
\* zero elsewhere; a square input is handed to the resize as it is.
LetterboxCentersImage ==
    px.phase = "letterboxed" =>
        LET h == Rows(px.img)
            w == Cols(px.img)
            side == IF h > w THEN h ELSE w
            top == (side - h) \div 2
            left == (side - w) \div 2
        IN  IF h = w THEN ~px.padded /\ px.src = px.img
            ELSE /\ px.padded
                 /\ Len(px.src) = side
                 /\ \A i \in 1..side :
                        /\ Len(px.src[i]) = side
                        /\ \A j \in 1..side :
                               px.src[i][j] =
                                   IF /\ i - top \in 1..h
                                      /\ j - left \in 1..w
                                   THEN px.img[i - top][j - left] ELSE 0

\* a 1 x 3 or 3 x 1 image, placed one row or column off the border
LetterboxWitness ==
    /\ px.phase = "letterboxed" /\ px.padded
    /\ Rows(px.img) # Cols(px.img)
    /\ (Len(px.src) - Rows(px.img)) \div 2 + (Len(px.src) - Cols(px.img)) \div 2 >= 1
    /\ \E i \in 1..Rows(px.img), j \in 1..Cols(px.img) : px.img[i][j] = 1

====
